---- MODULE Spec2Model ----
(***************************************************************************)
(* A model of the chronological-waffle pipeline of                          *)
(* chronological_waffle_munger.py: the heart-rate zone classifier, the      *)
(* day's time bins, the per-bin classification, the summary, and the        *)
(* replacement of a day's rows in the table chronological_waffle_data; and  *)
(* of view_chronological_waffle.py, which reads those rows and prints       *)
(* their summary and their timeline.                                        *)
(*                                                                         *)
(* Time is counted in ticks of half a minute; tick 0 is local midnight of   *)
(* date 0.  The midpoint of a bin that is a whole number of minutes wide is *)
(* then a whole number of ticks, as Python's timedelta / 2 is exact for it. *)
(* A Python None is the empty sequence <<>>, and a value v that may be None *)
(* is <<v>>.                                                                *)
(***************************************************************************)
EXTENDS Integers, Sequences, FiniteSets, TLC

VARIABLES
    zc_heart_rate,   \* calculate_hr_zones: the argument heart_rate
    zc_max_hr,       \* calculate_hr_zones: the argument max_hr
    zc_out,          \* calculate_hr_zones: <<>> before the call, then its outcome
    pc,              \* main: where the run is
    date_str,        \* main: args.date, as the number of the day
    bin_minutes,     \* main: args.bin_minutes
    max_hr,          \* main: args.max_hr
    sleep_periods,   \* what get_sleep_periods(date_str) returns
    hr_data,         \* what get_heart_rate_data(date_str) returns
    current_time,    \* create_time_bins: current_time
    bins,            \* create_time_bins: bins
    waffle_data,     \* create_chronological_waffle_data: waffle_data
    table,           \* the committed rows of chronological_waffle_data
    conn,            \* save_to_database: every call's arguments, place and transaction
    saved,           \* per date, the waffle_data of the last two calls to finish
    raced,           \* the dates that two calls have been saving at once
    summary,         \* main: the figures that print_waffle_summary has printed
    view_pc,         \* the viewer's main: where the run is
    view_out,        \* view_waffle_data: the figures it has printed
    timeline_rows,   \* view_detailed_timeline: waffle_data, the rows fetched
    row_i,           \* view_detailed_timeline: the rows the for loop has taken
    current_state,   \* view_detailed_timeline: current_state
    state_start,     \* view_detailed_timeline: state_start
    printed          \* view_detailed_timeline: the timeline lines printed

zc_vars == <<zc_heart_rate, zc_max_hr, zc_out>>

main_vars == <<pc, date_str, bin_minutes, max_hr, sleep_periods, hr_data,
               current_time, bins, waffle_data, summary>>

db_vars == <<table, conn, saved, raced>>

view_vars == <<view_pc, view_out, timeline_rows, row_i, current_state,
               state_start, printed>>

vars == <<zc_vars, main_vars, db_vars, view_vars>>

None == <<>>

Some(v) == <<v>>

\* ------------------------------------------------------------------------
\* Bounds of the model.
\* ------------------------------------------------------------------------

\* calculate_hr_zones is called alone with heart_rate in -2 .. MaxHeartRate
MaxHeartRate == 180

\* and with max_hr in -2 .. MaxMaxHr (173 is the default of the code)
MaxMaxHr == 174

\* main is run with bin_minutes in -1 .. MaxBinMinutes
MaxBinMinutes == 1445

\* The while loop of create_time_bins never ends for bin_minutes <= 0; the
\* model follows it for this many bins.
MaxRunaway == 4

\* The heart-rate readings of a day: at most this many.
MaxSamples == 4

\* The sleep stages of a day: at most this many.
MaxSleepPeriods == 3

\* The calls of save_to_database, at once or one after another: this many.
NumSaves == 3

\* The readings of a day whose counting is followed, in any order: at most
\* this many.
MaxReadings == 3

\* ------------------------------------------------------------------------
\* Time
\* ------------------------------------------------------------------------

\* Ticks in a minute: the midpoint (bin_end - bin_start) / 2 of line 135
\* falls on half minutes.
TicksPerMinute == 2

\* timedelta(days=1), in minutes (line 100)
DayMinutes == 1440

\* timedelta(minutes=m)
Minutes(m) == m * TicksPerMinute

\* The clock time hh:mm of day d
At(d, hh, mm) == Minutes(d * DayMinutes + hh * 60 + mm)

\* local_tz.localize(datetime.strptime(date_str, "%Y-%m-%d")) (lines 94-95)
base_date(d) == At(d, 0, 0)

\* base_date + timedelta(days=1) (line 100)
end_of_day(d) == base_date(d) + Minutes(DayMinutes)

\* ------------------------------------------------------------------------
\* calculate_hr_zones (lines 29-54)
\* ------------------------------------------------------------------------

\* percentage < threshold, where percentage = (heart_rate / max_hr) * 100.
\* The quotient is a float; for integer arguments it lies strictly on the
\* same side of every threshold as the exact rational, and is the threshold
\* exactly when the rational is, so the comparison is that of
\* heart_rate * 100 with threshold * max_hr, turned round for a negative
\* divisor.  Division by max_hr = 0 raises instead.
PercentageBelow(heart_rate, maxhr, threshold) ==
    IF maxhr > 0
    THEN heart_rate * 100 < threshold * maxhr
    ELSE heart_rate * 100 > threshold * maxhr

\* heart_rate / max_hr raises ZeroDivisionError (line 41); line 38 returns
\* before the division when heart_rate <= 0.
calculate_hr_zones_raises(heart_rate, maxhr) ==
    heart_rate > 0 /\ maxhr = 0

\* calculate_hr_zones with the 60% threshold closed: percentage <= 60.
calculate_hr_zones_closed60(heart_rate, maxhr) ==
    IF heart_rate <= 0 THEN 0
    ELSE IF PercentageBelow(heart_rate, maxhr, 50) THEN 1
    ELSE IF heart_rate * 100 <= 60 * maxhr THEN 2
    ELSE IF PercentageBelow(heart_rate, maxhr, 70) THEN 3
    ELSE IF PercentageBelow(heart_rate, maxhr, 80) THEN 4
    ELSE IF PercentageBelow(heart_rate, maxhr, 90) THEN 5
    ELSE 6

\* The value calculate_hr_zones returns when it does not raise.
calculate_hr_zones(heart_rate, maxhr) ==
    IF heart_rate <= 0 THEN 0
    ELSE IF PercentageBelow(heart_rate, maxhr, 50) THEN 1
    ELSE IF PercentageBelow(heart_rate, maxhr, 60) THEN 2
    ELSE IF PercentageBelow(heart_rate, maxhr, 70) THEN 3
    ELSE IF PercentageBelow(heart_rate, maxhr, 80) THEN 4
    ELSE IF PercentageBelow(heart_rate, maxhr, 90) THEN 5
    ELSE 6

\* ------------------------------------------------------------------------
\* is_sleeping (lines 80-85)
\* ------------------------------------------------------------------------

\* is_sleeping with the closed range opened at its end: timestamp < sleep_end.
RECURSIVE is_sleeping_open_end(_, _)
is_sleeping_open_end(timestamp, periods) ==
    IF periods = <<>> THEN FALSE
    ELSE IF Head(periods)[1] <= timestamp /\ timestamp < Head(periods)[2]
         THEN TRUE
         ELSE is_sleeping_open_end(timestamp, Tail(periods))

\* The for loop over sleep_periods, returning at the first period that
\* holds the timestamp.
RECURSIVE is_sleeping(_, _)
is_sleeping(timestamp, periods) ==
    IF periods = <<>> THEN FALSE
    ELSE IF Head(periods)[1] <= timestamp /\ timestamp <= Head(periods)[2]
         THEN TRUE
         ELSE is_sleeping(timestamp, Tail(periods))

\* ------------------------------------------------------------------------
\* calculate_dominant_zone_for_bin (lines 123-170)
\* ------------------------------------------------------------------------

\* The sleep test made on the start of the bin instead of its midpoint.
bin_midpoint_is_start(bin_start, bin_end) == bin_start

\* bin_start + (bin_end - bin_start) / 2 (line 135)
bin_midpoint(bin_start, bin_end) ==
    bin_start + (bin_end - bin_start) \div 2

\* The readings within the bin with its end included: bin_start <= hr_time
\* <= bin_end.
RECURSIVE bin_hr_readings_closed(_, _, _)
bin_hr_readings_closed(bin_start, bin_end, data) ==
    IF data = <<>> THEN <<>>
    ELSE LET rest == bin_hr_readings_closed(bin_start, bin_end, Tail(data))
         IN  IF bin_start <= Head(data)[1] /\ Head(data)[1] <= bin_end
             THEN <<Head(data)[2]>> \o rest
             ELSE rest

\* The readings of hr_data that fall within the bin, in the order of hr_data
\* (lines 139-142)
RECURSIVE bin_hr_readings(_, _, _)
bin_hr_readings(bin_start, bin_end, data) ==
    IF data = <<>> THEN <<>>
    ELSE LET rest == bin_hr_readings(bin_start, bin_end, Tail(data))
         IN  IF bin_start <= Head(data)[1] /\ Head(data)[1] < bin_end
             THEN <<Head(data)[2]>> \o rest
             ELSE rest

\* The zone of every reading of the bin (lines 145-149); defined when no
\* call raises.
zones_of(readings, maxhr) ==
    [i \in 1..Len(readings) |-> calculate_hr_zones(readings[i], maxhr)]

\* Some call of calculate_hr_zones for the bin raises.
zones_raise(readings, maxhr) ==
    \E i \in 1..Len(readings) : calculate_hr_zones_raises(readings[i], maxhr)

\* zone_counts[zone] = zone_counts.get(zone, 0) + 1 over zones (lines
\* 153-156).  A dict keeps its keys in the order they were first set: the
\* dict is the sequence of its <<key, value>> pairs in that order.
RECURSIVE count_zones(_, _)
count_zones(zones, counts) ==
    IF zones = <<>> THEN counts
    ELSE LET zone == Head(zones)
             at == {i \in 1..Len(counts) : counts[i][1] = zone}
         IN  IF at = {}
             THEN count_zones(Tail(zones), Append(counts, <<zone, 1>>))
             ELSE LET i == CHOOSE j \in at : TRUE
                  IN  count_zones(Tail(zones),
                          [counts EXCEPT ![i] = <<zone, counts[i][2] + 1>>])

\* max(zone_counts.keys(), key=lambda k: zone_counts[k]) (line 157): max
\* returns the first of the keys, in the dict's order, whose count is the
\* highest.
max_key(counts) ==
    LET best == CHOOSE i \in 1..Len(counts) :
                  /\ \A j \in 1..Len(counts) : counts[j][2] <= counts[i][2]
                  /\ \A j \in 1..(i - 1) : counts[j][2] < counts[i][2]
    IN  counts[best][1]

RECURSIVE SumSeq(_)
SumSeq(s) == IF s = <<>> THEN 0 ELSE Head(s) + SumSeq(Tail(s))

MinSeq(s) == CHOOSE v \in {s[i] : i \in 1..Len(s)} :
                 \A i \in 1..Len(s) : v <= s[i]

MaxSeq(s) == CHOOSE v \in {s[i] : i \in 1..Len(s)} :
                 \A i \in 1..Len(s) : s[i] <= v

Abs(n) == IF n < 0 THEN -n ELSE n

RECURSIVE Gcd(_, _)
Gcd(a, b) == IF b = 0 THEN a ELSE Gcd(b, a % b)

\* sum(bin_hr_readings) / len(bin_hr_readings) (line 164): the quotient, as
\* the fraction <<numerator, denominator>> in lowest terms, so that equal
\* averages are equal values.
Average(s) ==
    LET total == SumSeq(s)
        g == Gcd(Abs(total), Len(s))
    IN  <<total \div g, Len(s) \div g>>

\* The dict with 0 in place of None for the average of a bin without
\* readings.
calculate_dominant_zone_for_bin_avg0(bin_start, bin_end, data, periods, maxhr) ==
    LET is_sleep_bin == is_sleeping(bin_midpoint(bin_start, bin_end), periods)
        readings == bin_hr_readings(bin_start, bin_end, data)
        zones == zones_of(readings, maxhr)
        zone_counts == count_zones(zones, <<>>)
    IN  [ bin_start |-> bin_start,
          bin_end |-> bin_end,
          is_sleep |-> is_sleep_bin,
          hr_readings_count |-> Len(readings),
          avg_hr |-> IF readings # <<>> THEN Some(Average(readings))
                     ELSE Some(<<0, 1>>),
          min_hr |-> IF readings # <<>> THEN Some(MinSeq(readings)) ELSE None,
          max_hr |-> IF readings # <<>> THEN Some(MaxSeq(readings)) ELSE None,
          dominant_zone |-> IF zones # <<>> THEN Some(max_key(zone_counts))
                            ELSE None,
          zone_counts |-> zone_counts,
          all_zones |-> zones ]

\* The dict that calculate_dominant_zone_for_bin returns (lines 159-170).
calculate_dominant_zone_for_bin(bin_start, bin_end, data, periods, maxhr) ==
    LET is_sleep_bin == is_sleeping(bin_midpoint(bin_start, bin_end), periods)
        readings == bin_hr_readings(bin_start, bin_end, data)
        zones == zones_of(readings, maxhr)
        zone_counts == count_zones(zones, <<>>)
    IN  [ bin_start |-> bin_start,
          bin_end |-> bin_end,
          is_sleep |-> is_sleep_bin,
          hr_readings_count |-> Len(readings),
          avg_hr |-> IF readings # <<>> THEN Some(Average(readings)) ELSE None,
          min_hr |-> IF readings # <<>> THEN Some(MinSeq(readings)) ELSE None,
          max_hr |-> IF readings # <<>> THEN Some(MaxSeq(readings)) ELSE None,
          dominant_zone |-> IF zones # <<>> THEN Some(max_key(zone_counts))
                            ELSE None,
          zone_counts |-> zone_counts,
          all_zones |-> zones ]

\* ------------------------------------------------------------------------
\* create_time_bins (lines 87-107)
\* ------------------------------------------------------------------------

\* The loop body with the bin's end made inclusive: the bin recorded ends
\* one tick before the next one starts.
loop_body_inclusive(cur, bs, minutes) ==
    LET bin_end == cur + Minutes(minutes)
    IN  [current_time |-> bin_end, bins |-> Append(bs, <<cur, bin_end - 1>>)]

\* The body of the while loop (lines 103-105): current_time and bins after it.
loop_body(cur, bs, minutes) ==
    LET bin_end == cur + Minutes(minutes)
    IN  [current_time |-> bin_end, bins |-> Append(bs, <<cur, bin_end>>)]

\* The while loop run to its end from current_time = cur and bins = bs; it
\* ends only for minutes > 0.
RECURSIVE while_loop(_, _, _, _)
while_loop(cur, bs, minutes, d) ==
    IF cur < end_of_day(d)
    THEN LET after == loop_body(cur, bs, minutes)
         IN  while_loop(after.current_time, after.bins, minutes, d)
    ELSE bs

\* What create_time_bins returns, for bin_minutes > 0.
create_time_bins(d, minutes) == while_loop(base_date(d), <<>>, minutes, d)

\* ------------------------------------------------------------------------
\* create_chronological_waffle_data (lines 172-214)
\* ------------------------------------------------------------------------

\* int(n ** 0.5): the square root, rounded down (line 208)
IntSqrt(n) == CHOOSE k \in 0..n : k * k <= n /\ n < (k + 1) * (k + 1)

\* The columns with the test n <= 100 made first: 96 bins get 10 columns.
grid_cols_ten_first(n) ==
    IF n <= 100 THEN 10
    ELSE IF n = 96 THEN 12
    ELSE IntSqrt(n) + 1

\* The columns of the grid for n bins (lines 201-208)
grid_cols(n) ==
    IF n = 96 THEN 12
    ELSE IF n <= 100 THEN 10
    ELSE IntSqrt(n) + 1

\* bin_data after lines 194-210, for the bin that enumerate numbers i
waffle_entry(i, cols, bin, data, periods, maxhr) ==
    LET bin_data == calculate_dominant_zone_for_bin(bin[1], bin[2], data,
                                                    periods, maxhr)
    IN  [ bin_start |-> bin_data.bin_start,
          bin_end |-> bin_data.bin_end,
          is_sleep |-> bin_data.is_sleep,
          hr_readings_count |-> bin_data.hr_readings_count,
          avg_hr |-> bin_data.avg_hr,
          min_hr |-> bin_data.min_hr,
          max_hr |-> bin_data.max_hr,
          dominant_zone |-> bin_data.dominant_zone,
          zone_counts |-> bin_data.zone_counts,
          all_zones |-> bin_data.all_zones,
          bin_index |-> i,
          grid_row |-> i \div cols,
          grid_col |-> i % cols ]

\* The for loop over enumerate(time_bins) (lines 192-212), when no call of
\* calculate_hr_zones raises.
process_bins(time_bins, data, periods, maxhr) ==
    LET cols == grid_cols(Len(time_bins))
    IN  [k \in 1..Len(time_bins) |->
            waffle_entry(k - 1, cols, time_bins[k], data, periods, maxhr)]

\* The for loop raises: some reading of some bin makes calculate_hr_zones
\* divide by zero.
process_bins_raises(time_bins, data, maxhr) ==
    \E k \in 1..Len(time_bins) :
        zones_raise(bin_hr_readings(time_bins[k][1], time_bins[k][2], data),
                    maxhr)

\* ------------------------------------------------------------------------
\* main (lines 324-375), up to the call of save_to_database
\* ------------------------------------------------------------------------

\* main calls create_chronological_waffle_data, which calls create_time_bins
\* (lines 348, 180, 94-100).
EnterCreateTimeBins ==
    /\ pc = "main"
    /\ pc' = "create_time_bins"
    /\ current_time' = base_date(date_str)
    /\ bins' = <<>>
    /\ UNCHANGED <<date_str, bin_minutes, max_hr, sleep_periods, hr_data,
                   waffle_data>>
    /\ UNCHANGED <<summary, zc_vars, db_vars, view_vars>>

\* One turn of the while loop (lines 102-105).  For bin_minutes <= 0 the
\* loop has no end; the model follows its first MaxRunaway turns.
WhileLoopTurn ==
    /\ pc = "create_time_bins"
    /\ current_time < end_of_day(date_str)
    /\ (bin_minutes <= 0) => (Len(bins) < MaxRunaway)
    /\ LET after == loop_body(current_time, bins, bin_minutes)
       IN  /\ current_time' = after.current_time
           /\ bins' = after.bins
    /\ UNCHANGED <<pc, date_str, bin_minutes, max_hr, sleep_periods, hr_data,
                   waffle_data>>
    /\ UNCHANGED <<summary, zc_vars, db_vars, view_vars>>

\* The while loop ends and create_time_bins returns bins (lines 102, 107).
ReturnTimeBins ==
    /\ pc = "create_time_bins"
    /\ ~(current_time < end_of_day(date_str))
    /\ pc' = "process_bins"
    /\ UNCHANGED <<date_str, bin_minutes, max_hr, sleep_periods, hr_data,
                   current_time, bins, waffle_data>>
    /\ UNCHANGED <<summary, zc_vars, db_vars, view_vars>>

\* The rest of create_chronological_waffle_data (lines 184-214): every bin is
\* classified and main goes on to print_waffle_summary, or calculate_hr_zones
\* raises, main catches the exception and returns 1 (lines 369-373).
ProcessBins ==
    /\ pc = "process_bins"
    /\ IF process_bins_raises(bins, hr_data, max_hr)
       THEN /\ pc' = "error"
            /\ UNCHANGED waffle_data
       ELSE /\ pc' = "print_waffle_summary"
            /\ waffle_data' = process_bins(bins, hr_data, sleep_periods, max_hr)
    /\ UNCHANGED <<date_str, bin_minutes, max_hr, sleep_periods, hr_data,
                   current_time, bins>>
    /\ UNCHANGED <<summary, zc_vars, db_vars, view_vars>>

\* ------------------------------------------------------------------------
\* print_waffle_summary (lines 216-257)
\* ------------------------------------------------------------------------

\* The keys of a dict, sorted: sorted(zone_counts.keys()) (line 236, and
\* line 101 of the viewer)
RECURSIVE sorted(_)
sorted(keys) ==
    IF keys = {} THEN <<>>
    ELSE LET least == CHOOSE k \in keys : \A other \in keys : k <= other
         IN  <<least>> \o sorted(keys \ {least})

\* The value of a key that the dict has
dict_get(counts, key) ==
    LET i == CHOOSE j \in 1..Len(counts) : counts[j][1] = key
    IN  counts[i][2]

\* The lines "Zone z: c bins" in the order they are printed, as <<z, c>>
\* (lines 235-237, and lines 99-102 of the viewer)
zone_lines(counts) ==
    LET keys == sorted({counts[i][1] : i \in 1..Len(counts)})
    IN  [i \in 1..Len(keys) |-> <<keys[i], dict_get(counts, keys[i])>>]

\* The dominant zones that the loop of lines 224-227 tallies, in the order
\* of the bins: those of the bins that are not sleep and have one.
awake_zones(data) ==
    LET tallied(bin_data) ==
            ~bin_data.is_sleep /\ bin_data.dominant_zone # None
        awake == SelectSeq(data, tallied)
    IN  [k \in 1..Len(awake) |-> awake[k].dominant_zone[1]]

\* The figures that print_waffle_summary prints (lines 218-237).  The list
\* of the first 12 bins that follows (lines 239-257) is printed from the
\* same entries and leaves them as they are.
print_waffle_summary(data) ==
    LET total_bins == Len(data)
        sleep_bins == Cardinality({k \in 1..Len(data) : data[k].is_sleep})
        bins_with_hr == Cardinality({k \in 1..Len(data) :
                                        data[k].hr_readings_count > 0})
    IN  [ total_bins |-> total_bins,
          sleep_bins |-> sleep_bins,
          awake_bins |-> total_bins - sleep_bins,
          bins_with_hr |-> bins_with_hr,
          zone_distribution |->
              zone_lines(count_zones(awake_zones(data), <<>>)) ]

\* main prints the summary of waffle_data and goes on to save_to_database
\* (lines 355-359).
PrintWaffleSummary ==
    /\ pc = "print_waffle_summary"
    /\ pc' = "save_to_database"
    /\ summary' = Some(print_waffle_summary(waffle_data))
    /\ UNCHANGED <<date_str, bin_minutes, max_hr, sleep_periods, hr_data,
                   current_time, bins, waffle_data>>
    /\ UNCHANGED <<zc_vars, db_vars, view_vars>>

MainNext ==
    \/ EnterCreateTimeBins
    \/ WhileLoopTurn
    \/ ReturnTimeBins
    \/ ProcessBins
    \/ PrintWaffleSummary

\* ------------------------------------------------------------------------
\* save_to_database (lines 259-322)
\* ------------------------------------------------------------------------

\* The dates that are saved
Dates == {0, 1}

\* A call of save_to_database that has not begun
NoCall ==
    [pc |-> "idle", date_str |-> 0, waffle_data |-> <<>>, i |-> 0,
     deleted |-> {}, pending |-> {}]

\* The call has begun and has neither returned nor raised.
InProgress(r) == conn[r].pc \notin {"idle", "done", "error"}

\* json.dumps(bin_data['zone_counts']) (line 318): the keys of the dict
\* become strings.
json_dumps(counts) ==
    [i \in 1..Len(counts) |-> <<ToString(counts[i][1]), counts[i][2]>>]

\* The parameters of the INSERT (lines 305-319), which are the row it
\* stores: the columns id and created_at, which the database fills in and no
\* query of the repository reads, are left out.
insert_values(d, bin_data) ==
    [ date |-> d,
      bin_index |-> bin_data.bin_index,
      bin_start |-> bin_data.bin_start,
      bin_end |-> bin_data.bin_end,
      grid_row |-> bin_data.grid_row,
      grid_col |-> bin_data.grid_col,
      is_sleep |-> bin_data.is_sleep,
      hr_readings_count |-> bin_data.hr_readings_count,
      avg_hr |-> bin_data.avg_hr,
      min_hr |-> bin_data.min_hr,
      max_hr |-> bin_data.max_hr,
      dominant_zone |-> bin_data.dominant_zone,
      zone_counts |-> json_dumps(bin_data.zone_counts) ]

\* The columns of UNIQUE(date, bin_index) (line 282)
unique_key(row) == <<row.date, row.bin_index>>

\* The DELETE without its WHERE clause: the rows of every date.
rows_to_delete_all(rows, d) == rows

\* The rows that DELETE ... WHERE date = :date_str removes (lines 288-290)
rows_to_delete(rows, d) == {row \in rows : row.date = d}

\* What main passes to save_to_database for date d: the waffle_data of a day
\* of two bins without readings, or of one bin without readings or with one.
SavedDays(d) ==
    { process_bins(create_time_bins(d, in[1]), in[2], <<>>, 173) :
          in \in { <<720, <<>> >>, <<1440, <<>> >>,
                   <<1440, << <<At(d, 10, 0), 125>> >> >> } }

\* save_to_database(waffle_data, date_str) is called, connects, and runs
\* CREATE TABLE IF NOT EXISTS with its commit (lines 261-285): the rows of an
\* existing table stay, and a new table has none.
CallSave(r) ==
    /\ conn[r].pc = "idle"
    /\ \E d \in Dates : \E w \in SavedDays(d) :
          /\ conn' = [conn EXCEPT ![r] =
                        [pc |-> "delete", date_str |-> d,
                         waffle_data |-> w, i |-> 0,
                         deleted |-> {}, pending |-> {}]]
          /\ raced' = IF \E o \in DOMAIN conn :
                            o # r /\ InProgress(o) /\ conn[o].date_str = d
                      THEN raced \cup {d}
                      ELSE raced
    /\ UNCHANGED <<table, saved>>
    /\ UNCHANGED <<zc_vars, main_vars, view_vars>>

\* DELETE ... WHERE date = :date_str (lines 288-290).  The statement waits
\* while another transaction holds the lock of a row it would delete; its
\* rows stay in the table, locked, until the commit.
Delete(r) ==
    /\ conn[r].pc = "delete"
    /\ \A o \in DOMAIN conn :
          o # r => rows_to_delete(table, conn[r].date_str) \cap conn[o].deleted = {}
    /\ conn' = [conn EXCEPT ![r].pc = "delete_commit",
                            ![r].deleted = rows_to_delete(table, conn[r].date_str)]
    /\ UNCHANGED <<table, saved, raced>>
    /\ UNCHANGED <<zc_vars, main_vars, view_vars>>

\* conn.commit() after the DELETE (line 291)
DeleteCommit(r) ==
    /\ conn[r].pc = "delete_commit"
    /\ table' = table \ conn[r].deleted
    /\ conn' = [conn EXCEPT ![r].pc = "insert", ![r].deleted = {}, ![r].i = 1]
    /\ UNCHANGED <<saved, raced>>
    /\ UNCHANGED <<zc_vars, main_vars, view_vars>>

\* The values of the INSERT that the for loop of call r is at
NextValues(r) == insert_values(conn[r].date_str, conn[r].waffle_data[conn[r].i])

\* Another transaction holds a row of the key not yet committed, inserted or
\* deleted: an INSERT of the key waits for that transaction to end.
KeyLockedByOther(r, key) ==
    \E o \in DOMAIN conn :
        /\ o # r
        /\ \E row \in conn[o].pending \cup conn[o].deleted : unique_key(row) = key

\* A committed row has the key.
KeyCommitted(key) == \E row \in table : unique_key(row) = key

\* One INSERT of the for loop (lines 294-319) succeeds; the row is not
\* committed yet.
Insert(r) ==
    /\ conn[r].pc = "insert"
    /\ conn[r].i <= Len(conn[r].waffle_data)
    /\ ~KeyLockedByOther(r, unique_key(NextValues(r)))
    /\ ~KeyCommitted(unique_key(NextValues(r)))
    /\ conn' = [conn EXCEPT ![r].pending = @ \cup {NextValues(r)},
                            ![r].i = @ + 1]
    /\ UNCHANGED <<table, saved, raced>>
    /\ UNCHANGED <<zc_vars, main_vars, view_vars>>

\* One INSERT of the for loop violates UNIQUE(date, bin_index): the
\* exception leaves the with block, the connection closes and its
\* transaction is rolled back; main catches the exception and returns 1
\* (lines 369-373).
InsertRaises(r) ==
    /\ conn[r].pc = "insert"
    /\ conn[r].i <= Len(conn[r].waffle_data)
    /\ ~KeyLockedByOther(r, unique_key(NextValues(r)))
    /\ KeyCommitted(unique_key(NextValues(r)))
    /\ conn' = [conn EXCEPT ![r].pc = "error", ![r].pending = {}]
    /\ UNCHANGED <<table, saved, raced>>
    /\ UNCHANGED <<zc_vars, main_vars, view_vars>>

\* The last two of the saves of a date, after one more
LastTwo(before, w) ==
    IF before = <<>> THEN <<w>> ELSE <<before[Len(before)], w>>

\* conn.commit() after the for loop (line 321): the call is complete.
Commit(r) ==
    /\ conn[r].pc = "insert"
    /\ conn[r].i > Len(conn[r].waffle_data)
    /\ table' = table \cup conn[r].pending
    /\ conn' = [conn EXCEPT ![r].pc = "done", ![r].pending = {}]
    /\ saved' = [saved EXCEPT ![conn[r].date_str] =
                    LastTwo(@, conn[r].waffle_data)]
    /\ UNCHANGED raced
    /\ UNCHANGED <<zc_vars, main_vars, view_vars>>

SaveNext ==
    \/ \E r \in DOMAIN conn : CallSave(r)
    \/ \E r \in DOMAIN conn : Delete(r)
    \/ \E r \in DOMAIN conn : DeleteCommit(r)
    \/ \E r \in DOMAIN conn : Insert(r)
    \/ \E r \in DOMAIN conn : InsertRaises(r)
    \/ \E r \in DOMAIN conn : Commit(r)

\* ------------------------------------------------------------------------
\* view_chronological_waffle.py: view_waffle_data (lines 22-102) and
\* view_detailed_timeline (lines 104-143)
\* ------------------------------------------------------------------------

\* The date that the viewer's main shows (line 147)
view_date == 0

\* The rows of a set in the order of ORDER BY bin_index, which UNIQUE(date,
\* bin_index) makes a strict order for the rows of one date
RECURSIVE order_by_bin_index(_)
order_by_bin_index(rows) ==
    IF rows = {} THEN <<>>
    ELSE LET first == CHOOSE row \in rows :
                          \A other \in rows : row.bin_index <= other.bin_index
         IN  <<first>> \o order_by_bin_index(rows \ {first})

\* fetchall() of the SELECT of view_waffle_data (lines 28-36): a row is the
\* tuple of the nine columns selected; row[0] of the code is row[1] here.
select_waffle_data(rows, d) ==
    LET found == order_by_bin_index({row \in rows : row.date = d})
    IN  [k \in 1..Len(found) |->
            << found[k].bin_index, found[k].bin_start, found[k].bin_end,
               found[k].grid_row, found[k].grid_col, found[k].is_sleep,
               found[k].hr_readings_count, found[k].avg_hr,
               found[k].dominant_zone >>]

\* fetchall() of the SELECT of view_detailed_timeline (lines 109-116): the
\* tuple of the six columns selected
select_timeline(rows, d) ==
    LET found == order_by_bin_index({row \in rows : row.date = d})
    IN  [k \in 1..Len(found) |->
            << found[k].bin_start, found[k].bin_end, found[k].is_sleep,
               found[k].avg_hr, found[k].dominant_zone,
               found[k].hr_readings_count >>]

\* row[n] of the code, which counts the columns from 0
Col(row, n) == row[n + 1]

\* The zones that the loop of lines 94-97 tallies with the sleep rows among
\* them: the test "not row[5]" left out.
view_zones_with_sleep(data) ==
    LET tallied(row) == Col(row, 8) # None
        awake == SelectSeq(data, tallied)
    IN  [k \in 1..Len(awake) |-> Col(awake[k], 8)[1]]

\* The zones that the loop of lines 94-97 tallies, in the order of the rows:
\* row[8] of the rows with row[5] false and row[8] not None.
view_zones(data) ==
    LET tallied(row) == ~Col(row, 5) /\ Col(row, 8) # None
        awake == SelectSeq(data, tallied)
    IN  [k \in 1..Len(awake) |-> Col(awake[k], 8)[1]]

\* What view_waffle_data prints after the grid and its legend (lines
\* 81-102): the summary and the zone distribution; with no row for the date
\* it prints that there is no data and returns (lines 38-40).
view_waffle_data(data) ==
    IF data = <<>>
    THEN [ found |-> FALSE ]
    ELSE LET sleep_bins == Cardinality({k \in 1..Len(data) :
                                            Col(data[k], 5)})
             no_data_bins == Cardinality({k \in 1..Len(data) :
                                              Col(data[k], 6) = 0})
         IN  [ found |-> TRUE,
               total_bins |-> Len(data),
               sleep_bins |-> sleep_bins,
               no_data_bins |-> no_data_bins,
               awake_with_data |-> Len(data) - sleep_bins - no_data_bins,
               zone_distribution |->
                   zone_lines(count_zones(view_zones(data), <<>>)) ]

\* strftime('%H:%M') of a time (lines 137, 143): the hour and the minute of
\* the day, without the date and without the seconds
strftime(t) ==
    LET minute == t \div TicksPerMinute
    IN  <<(minute \div 60) % 24, minute % 60>>

\* The state of a row with the zone looked at before the sleep flag.
state_of_zone_first(is_sleep, zone) ==
    IF zone # None THEN "ZONE_" \o ToString(zone[1])
    ELSE IF is_sleep THEN "SLEEP"
    ELSE "NO_DATA"

\* The state of a row (lines 127-132)
state_of(is_sleep, zone) ==
    IF is_sleep THEN "SLEEP"
    ELSE IF zone = None THEN "NO_DATA"
    ELSE "ZONE_" \o ToString(zone[1])

\* A line of the timeline (lines 137, 143): the two times handed to
\* strftime, the state, and the text printed
timeline_line(from, to, state) ==
    [ from |-> from, to |-> to, state |-> state,
      text |-> <<strftime(from), strftime(to), state>> ]

\* The viewer's main starts (lines 145-150).
ViewStart ==
    /\ view_pc = "main"
    /\ view_pc' = "view_waffle_data"
    /\ UNCHANGED <<view_out, timeline_rows, row_i, current_state,
                   state_start, printed>>
    /\ UNCHANGED <<zc_vars, main_vars, db_vars>>

\* view_waffle_data(date_str) (lines 22-102)
ViewWaffleData ==
    /\ view_pc = "view_waffle_data"
    /\ view_pc' = "view_detailed_timeline"
    /\ view_out' = Some(view_waffle_data(select_waffle_data(table, view_date)))
    /\ UNCHANGED <<timeline_rows, row_i, current_state, state_start, printed>>
    /\ UNCHANGED <<zc_vars, main_vars, db_vars>>

\* view_detailed_timeline(date_str) fetches the rows (lines 106-122).
TimelineFetch ==
    /\ view_pc = "view_detailed_timeline"
    /\ view_pc' = "timeline_loop"
    /\ timeline_rows' = select_timeline(table, view_date)
    /\ row_i' = 0
    /\ current_state' = None
    /\ state_start' = None
    /\ UNCHANGED <<view_out, printed>>
    /\ UNCHANGED <<zc_vars, main_vars, db_vars>>

\* One turn of the for loop over the rows (lines 124-139)
TimelineTurn ==
    /\ view_pc = "timeline_loop"
    /\ row_i < Len(timeline_rows)
    /\ LET row == timeline_rows[row_i + 1]
           bin_start == row[1]
           is_sleep == row[3]
           zone == row[5]
           state == state_of(is_sleep, zone)
       IN  IF current_state # Some(state)
           THEN /\ printed' =
                     IF current_state # None
                     THEN Append(printed,
                                 timeline_line(state_start[1], bin_start,
                                               current_state[1]))
                     ELSE printed
                /\ current_state' = Some(state)
                /\ state_start' = Some(bin_start)
           ELSE UNCHANGED <<printed, current_state, state_start>>
    /\ row_i' = row_i + 1
    /\ UNCHANGED <<view_pc, view_out, timeline_rows>>
    /\ UNCHANGED <<zc_vars, main_vars, db_vars>>

\* The loop is over: the final state is printed (lines 141-143) and the
\* viewer's main returns.
TimelineFinal ==
    /\ view_pc = "timeline_loop"
    /\ row_i = Len(timeline_rows)
    /\ view_pc' = "done"
    /\ printed' =
          IF current_state # None
          THEN Append(printed,
                      timeline_line(state_start[1],
                                    Col(timeline_rows[Len(timeline_rows)], 1),
                                    current_state[1]))
          ELSE printed
    /\ UNCHANGED <<view_out, timeline_rows, row_i, current_state, state_start>>
    /\ UNCHANGED <<zc_vars, main_vars, db_vars>>

ViewNext ==
    \/ ViewStart
    \/ ViewWaffleData
    \/ TimelineFetch
    \/ TimelineTurn
    \/ TimelineFinal

\* ------------------------------------------------------------------------
\* calculate_hr_zones called alone
\* ------------------------------------------------------------------------

\* The call returns a zone.
ZoneReturn ==
    /\ zc_out = None
    /\ ~calculate_hr_zones_raises(zc_heart_rate, zc_max_hr)
    /\ zc_out' = Some([returned |-> Some(calculate_hr_zones(zc_heart_rate, zc_max_hr)),
                       raised |-> ""])
    /\ UNCHANGED <<zc_heart_rate, zc_max_hr>>
    /\ UNCHANGED <<main_vars, db_vars, view_vars>>

\* The call raises ZeroDivisionError.
ZoneRaise ==
    /\ zc_out = None
    /\ calculate_hr_zones_raises(zc_heart_rate, zc_max_hr)
    /\ zc_out' = Some([returned |-> None, raised |-> "ZeroDivisionError"])
    /\ UNCHANGED <<zc_heart_rate, zc_max_hr>>
    /\ UNCHANGED <<main_vars, db_vars, view_vars>>

ZoneNext ==
    \/ ZoneReturn
    \/ ZoneRaise

\* ------------------------------------------------------------------------
\* Initial states
\* ------------------------------------------------------------------------

\* No call of calculate_hr_zones alone.
ZoneIdle ==
    /\ zc_heart_rate = 0
    /\ zc_max_hr = 173
    /\ zc_out = Some([returned |-> Some(0), raised |-> ""])

\* No run of main.
MainIdle ==
    /\ pc = "idle"
    /\ date_str = 0
    /\ bin_minutes = 15
    /\ max_hr = 173
    /\ sleep_periods = <<>>
    /\ hr_data = <<>>
    /\ current_time = 0
    /\ bins = <<>>
    /\ waffle_data = <<>>
    /\ summary = None

\* No run of the viewer.
ViewIdle ==
    /\ view_pc = "idle"
    /\ view_out = None
    /\ timeline_rows = <<>>
    /\ row_i = 0
    /\ current_state = None
    /\ state_start = None
    /\ printed = <<>>

\* No call of save_to_database: the table is empty.
DbIdle ==
    /\ table = {}
    /\ conn = [r \in 1..NumSaves |-> NoCall]
    /\ saved = [d \in Dates |-> <<>>]
    /\ raced = {}

\* calculate_hr_zones is about to be called with any arguments of the bounds.
ZoneInit ==
    /\ zc_heart_rate \in (-2)..MaxHeartRate
    /\ zc_max_hr \in (-2)..MaxMaxHr
    /\ zc_out = None
    /\ MainIdle
    /\ DbIdle
    /\ ViewIdle

SpecZones == ZoneInit /\ [][ZoneNext]_vars

\* main is about to run for a day without sleep stages or readings, with any
\* bin_minutes of the bounds.
BinsInit ==
    /\ pc = "main"
    /\ date_str = 0
    /\ bin_minutes \in (-1)..MaxBinMinutes
    /\ max_hr = 173
    /\ sleep_periods = <<>>
    /\ hr_data = <<>>
    /\ current_time = 0
    /\ bins = <<>>
    /\ waffle_data = <<>>
    /\ summary = None
    /\ ZoneIdle
    /\ DbIdle
    /\ ViewIdle

SpecBins == BinsInit /\ [][MainNext]_vars

\* ------------------------------------------------------------------------
\* The bin generator (SpecBins)
\* ------------------------------------------------------------------------

\* create_time_bins has returned.
BinsReturned ==
    pc \in {"process_bins", "print_waffle_summary", "save_to_database", "error"}

\* C1: for every bin_minutes > 0 the bins returned by create_time_bins cover
\* the day exactly: the first starts at local midnight and the last ends at
\* the following local midnight, also when bin_minutes does not divide 1440.
C1_BinsCoverDayExactly ==
    (bin_minutes > 0 /\ BinsReturned) =>
        /\ bins # <<>>
        /\ bins[1][1] = base_date(date_str)
        /\ bins[Len(bins)][2] = end_of_day(date_str)

\* C2: for every bin_minutes > 0 the bins are contiguous and strictly
\* forward, during the loop and after it: the first starts at local
\* midnight, each ends where the next starts, each has end > start; and the
\* entries of waffle_data are those bins, numbered 0 .. n-1 in order.
C2_BinsContiguousForward ==
    bin_minutes > 0 =>
        /\ bins # <<>> => bins[1][1] = base_date(date_str)
        /\ \A k \in 1..(Len(bins) - 1) : bins[k][2] = bins[k + 1][1]
        /\ \A k \in 1..Len(bins) : bins[k][2] > bins[k][1]
        /\ pc = "save_to_database" =>
              /\ Len(waffle_data) = Len(bins)
              /\ \A k \in 1..Len(bins) :
                    /\ waffle_data[k].bin_index = k - 1
                    /\ waffle_data[k].bin_start = bins[k][1]
                    /\ waffle_data[k].bin_end = bins[k][2]

\* A day of 7-minute bins, which do not divide it, has been classified.
C2_Witness ==
    /\ pc = "save_to_database"
    /\ bin_minutes = 7
    /\ Len(bins) = 206
    /\ waffle_data[206].bin_index = 205

\* C7: a run with bin_minutes <= 0 is rejected before any computation: it
\* generates no bin and classifies none.
C7_BadBinMinutesRejected ==
    bin_minutes <= 0 => (bins = <<>> /\ waffle_data = <<>>)

\* The number of bins that bin_minutes > 0 cut the day into: 1440 /
\* bin_minutes, rounded up.
BinsOfDay == (DayMinutes + bin_minutes - 1) \div bin_minutes

\* C13: for a day without sleep stages and without readings and any
\* bin_minutes > 0, the run raises no error, and what it returns is the
\* whole gap-free sequence of the day's bins, every one with is_sleep false,
\* dominant_zone None, hr_readings_count 0 and avg_hr, min_hr, max_hr None.
C13_ZeroInputAllNoData ==
    (bin_minutes > 0 /\ sleep_periods = <<>> /\ hr_data = <<>>) =>
        /\ pc # "error"
        /\ pc = "save_to_database" =>
              /\ Len(waffle_data) = BinsOfDay
              /\ waffle_data[1].bin_start = base_date(date_str)
              /\ waffle_data[Len(waffle_data)].bin_end >= end_of_day(date_str)
              /\ \A k \in 1..(Len(waffle_data) - 1) :
                    waffle_data[k].bin_end = waffle_data[k + 1].bin_start
              /\ \A k \in 1..Len(waffle_data) :
                    /\ waffle_data[k].bin_index = k - 1
                    /\ waffle_data[k].is_sleep = FALSE
                    /\ waffle_data[k].dominant_zone = None
                    /\ waffle_data[k].hr_readings_count = 0
                    /\ waffle_data[k].avg_hr = None
                    /\ waffle_data[k].min_hr = None
                    /\ waffle_data[k].max_hr = None
                    /\ waffle_data[k].zone_counts = <<>>

\* A day of 45-minute bins without any input has been classified: 32 bins.
C13_Witness ==
    /\ pc = "save_to_database"
    /\ bin_minutes = 45
    /\ sleep_periods = <<>>
    /\ hr_data = <<>>
    /\ Len(waffle_data) = 32
    /\ waffle_data[32].dominant_zone = None

\* The columns that the rule of the grid gives n bins: 12 for 96 bins, 10
\* for up to 100 bins otherwise, and else one more than the c whose square
\* is the largest square that is at most n.
ColsFor(n) ==
    IF n = 96 THEN 12
    ELSE IF n <= 100 THEN 10
    ELSE 1 + CHOOSE c \in 1..n : c * c <= n /\ (c + 1) * (c + 1) > n

\* C14: for n > 0 bins and every index i of 0 .. n-1 the grid position is
\* row = i // cols and col = i % cols for the cols of the rule; so
\* row * cols + col = i, 0 <= col < cols, and two indices never share a
\* position; with 96 bins index 13 is at row 1, col 1 and with 72 bins
\* index 15 is at row 1, col 5.
C14_GridPositions ==
    (bin_minutes > 0 /\ pc = "save_to_database") =>
        LET n == Len(waffle_data)
            cols == ColsFor(n)
        IN  /\ n > 0
            /\ \A k \in 1..n :
                  LET i == waffle_data[k].bin_index
                      row == waffle_data[k].grid_row
                      col == waffle_data[k].grid_col
                  IN  /\ i = k - 1
                      /\ row = i \div cols
                      /\ col = i % cols
                      /\ row * cols + col = i
                      /\ 0 <= col /\ col < cols
                      /\ 0 <= row
            /\ \A k \in 1..n : \A m \in (k + 1)..n :
                  <<waffle_data[k].grid_row, waffle_data[k].grid_col>>
                      # <<waffle_data[m].grid_row, waffle_data[m].grid_col>>
            /\ n = 96 => (waffle_data[14].grid_row = 1
                           /\ waffle_data[14].grid_col = 1)
            /\ n = 72 => (waffle_data[16].grid_row = 1
                           /\ waffle_data[16].grid_col = 5)

\* The day of 96 bins of 15 minutes has its bin 13 at row 1, col 1, and its
\* last bin at row 7, col 11.
C14_Witness ==
    /\ pc = "save_to_database"
    /\ bin_minutes = 15
    /\ Len(waffle_data) = 96
    /\ waffle_data[14].bin_index = 13
    /\ waffle_data[14].grid_row = 1
    /\ waffle_data[14].grid_col = 1
    /\ waffle_data[96].grid_row = 7
    /\ waffle_data[96].grid_col = 11

\* ------------------------------------------------------------------------
\* The zone classifier (SpecZones)
\* ------------------------------------------------------------------------

\* The zone the half-open thresholds fix: one more than the number of the
\* thresholds 50, 60, 70, 80, 90 that heart_rate / max_hr * 100 has reached.
ThresholdZone(heart_rate, maxhr) ==
    1 + Cardinality({t \in {50, 60, 70, 80, 90} : t * maxhr <= heart_rate * 100})

C6_NonPositiveMaxHrInvalidConfig ==
    (zc_out # None /\ zc_max_hr <= 0 /\ zc_heart_rate > 0) =>
        /\ zc_out[1].raised = "InvalidConfig"
        /\ zc_out[1].returned = None

\* ------------------------------------------------------------------------
\* The day of the scenario (SpecScenario)
\* ------------------------------------------------------------------------

\* One sleep interval 23:00-07:00: from the evening of the date into the
\* next morning, or from the evening before into the morning of the date.
ScenarioSleep ==
    { << <<At(0, 23, 0), At(1, 7, 0)>> >>,
      << <<At(-1, 23, 0), At(0, 7, 0)>> >> }

ScenarioInit ==
    /\ pc = "main"
    /\ date_str = 0
    /\ bin_minutes = 15
    /\ max_hr = 173
    /\ sleep_periods \in ScenarioSleep
    /\ hr_data = << <<At(0, 8, 0), 65>>, <<At(0, 10, 0), 125>>,
                    <<At(0, 20, 0), 80>> >>
    /\ current_time = 0
    /\ bins = <<>>
    /\ waffle_data = <<>>
    /\ summary = None
    /\ ZoneIdle
    /\ DbIdle
    /\ ViewIdle

SpecScenario == ScenarioInit /\ [][MainNext]_vars

\* The entries of waffle_data whose bin lies within [from, to)
EntriesWithin(from, to) ==
    {k \in 1..Len(waffle_data) :
        from <= waffle_data[k].bin_start /\ waffle_data[k].bin_end <= to}

\* The entries of waffle_data whose bin holds the time t
EntriesHolding(t) ==
    {k \in 1..Len(waffle_data) :
        waffle_data[k].bin_start <= t /\ t < waffle_data[k].bin_end}

\* The scenario gives 96 bins, and the bin that holds 10:00 has dominant
\* zone 4.
ScenarioBinsAndZone ==
    /\ Len(waffle_data) = 96
    /\ EntriesHolding(At(0, 10, 0)) # {}
    /\ \A k \in EntriesHolding(At(0, 10, 0)) :
          waffle_data[k].dominant_zone = Some(4)

SampleTimes == {At(0, 10, 0), At(0, 10, 5), At(0, 20, 0)}

\* The heart rates read: none (0), zone 2 and zone 4 of max_hr 173.
SampleRates == {0, 95, 125}

\* Lists of at most n elements of S
SeqsUpTo(S, n) == UNION {[1..m -> S] : m \in 0..n}

\* The query of get_heart_rate_data is ORDER BY datetime (line 118).
OrderedByTime(data) ==
    \A i \in 1..(Len(data) - 1) : data[i][1] <= data[i + 1][1]

DominantInit ==
    /\ pc = "main"
    /\ date_str = 0
    /\ bin_minutes = 720
    /\ max_hr \in {-1, 0, 173}
    /\ sleep_periods \in {<<>>, << <<At(0, 0, 0), At(0, 7, 0)>> >>}
    /\ hr_data \in {data \in SeqsUpTo(SampleTimes \X SampleRates, MaxSamples) :
                       OrderedByTime(data)}
    /\ current_time = 0
    /\ bins = <<>>
    /\ waffle_data = <<>>
    /\ summary = None
    /\ ZoneIdle
    /\ DbIdle
    /\ ViewIdle

SpecDominant == DominantInit /\ [][MainNext]_vars

\* How many of the zones are z
Tally(zones, z) == Cardinality({i \in 1..Len(zones) : zones[i] = z})

\* The zones of the highest tally
TopZones(zones) ==
    {z \in {zones[i] : i \in 1..Len(zones)} :
        \A i \in 1..Len(zones) : Tally(zones, zones[i]) <= Tally(zones, z)}

\* C3: in whatever order the readings come, the dominant zone of a bin is
\* the zone of the highest tally, and of several such the smallest.  Stated
\* for max_hr > 0 and the bins whose readings are all in zones 1..6.
C3_SmallestZoneWinsTies ==
    (pc = "save_to_database" /\ max_hr > 0) =>
        \A k \in 1..Len(waffle_data) :
            (/\ waffle_data[k].all_zones # <<>>
             /\ \A i \in 1..Len(waffle_data[k].all_zones) :
                   waffle_data[k].all_zones[i] \in 1..6) =>
                /\ waffle_data[k].dominant_zone # None
                /\ waffle_data[k].dominant_zone[1]
                      \in TopZones(waffle_data[k].all_zones)
                /\ \A z \in TopZones(waffle_data[k].all_zones) :
                      waffle_data[k].dominant_zone[1] <= z

\* C4: the dominant zone of a classified bin is None or one of 1..6, and
\* zone_counts has no key 0.  Stated for max_hr > 0.
C4_ZoneZeroExcluded ==
    (pc = "save_to_database" /\ max_hr > 0) =>
        \A k \in 1..Len(waffle_data) :
            /\ waffle_data[k].dominant_zone \in {None} \cup {Some(z) : z \in 1..6}
            /\ \A i \in 1..Len(waffle_data[k].zone_counts) :
                  waffle_data[k].zone_counts[i][1] # 0

\* ------------------------------------------------------------------------
\* Days of a few sleep stages (SpecSleep)
\* ------------------------------------------------------------------------

\* The starts and ends of the sleep stages, in ticks: midnight, the
\* midpoints 04:00:30 and 12:01:30 of the first two 481-minute bins, the
\* midpoint 06:00 of the first 720-minute bin, and the end of the last
\* 481-minute bin.
SleepTimes == {0, 481, 720, 1443, 2886}

\* A stage ends stage_datetime + timedelta(seconds=seconds) (line 75).
SleepStages == {p \in SleepTimes \X SleepTimes : p[1] <= p[2]}

\* is_sleeping takes any list of intervals.  The query of get_sleep_periods
\* is ORDER BY st.datetime (line 69); the lists in that order are among
\* these.
SleepInit ==
    /\ pc = "main"
    /\ date_str = 0
    /\ bin_minutes \in {481, 720}
    /\ max_hr = 173
    /\ sleep_periods \in SeqsUpTo(SleepStages, MaxSleepPeriods)
    /\ hr_data \in {<<>>, << <<At(0, 4, 0), 125>> >>}
    /\ current_time = 0
    /\ bins = <<>>
    /\ waffle_data = <<>>
    /\ summary = None
    /\ ZoneIdle
    /\ DbIdle
    /\ ViewIdle

SpecSleep == SleepInit /\ [][MainNext]_vars

\* C9: whatever the list of sleep intervals, in order or not, overlapping or
\* not, a bin is a sleep bin if and only if its midpoint, the time as far
\* from its start as from its end, lies in the closed range of at least one
\* interval; nothing else of the intervals and nothing of the readings
\* counts.
C9_SleepIffMidpointInInterval ==
    pc = "save_to_database" =>
        \A k \in 1..Len(waffle_data) :
            waffle_data[k].is_sleep <=>
                \E j \in 1..Len(sleep_periods) :
                    /\ 2 * sleep_periods[j][1]
                          <= waffle_data[k].bin_start + waffle_data[k].bin_end
                    /\ waffle_data[k].bin_start + waffle_data[k].bin_end
                          <= 2 * sleep_periods[j][2]

\* Two intervals out of order.  The first bin is not a sleep bin, though
\* both intervals overlap it and a reading lies in it; the second is one,
\* its midpoint being the very end of the first-listed interval.
C9_Witness ==
    /\ pc = "save_to_database"
    /\ bin_minutes = 481
    /\ sleep_periods = << <<720, 1443>>, <<0, 0>> >>
    /\ hr_data # <<>>
    /\ ~waffle_data[1].is_sleep
    /\ waffle_data[2].is_sleep
    /\ ~waffle_data[3].is_sleep

\* ------------------------------------------------------------------------
\* Calls of save_to_database, at once or one after another (SpecSave)
\* ------------------------------------------------------------------------

SaveInit ==
    /\ DbIdle
    /\ ViewIdle
    /\ MainIdle
    /\ ZoneIdle

SpecSave == SaveInit /\ [][SaveNext]_vars

\* The stored rows of date d
StoredRows(d) == {row \in table : row.date = d}

\* The rows that a complete save of the waffle_data w for date d stores
ValuesOf(d, w) == {insert_values(d, w[k]) : k \in 1..Len(w)}

\* No call is saving date d.
Quiet(d) == \A r \in DOMAIN conn : InProgress(r) => conn[r].date_str # d

\* C10: whenever no call is saving date d, and the calls for d have come one
\* after another, however the calls for other dates were interleaved with
\* them, the stored rows of d are the bins of the last call for d to
\* finish, one row per bin_index and none of an earlier call; no call for
\* another date changes them.
C10_StoredRowsAreLastSave ==
    \A d \in Dates :
        (Quiet(d) /\ d \notin raced) =>
            /\ StoredRows(d) =
                  (IF saved[d] = <<>> THEN {}
                   ELSE ValuesOf(d, saved[d][Len(saved[d])]))
            /\ \A row1, row2 \in StoredRows(d) :
                  unique_key(row1) = unique_key(row2) => row1 = row2
            /\ saved[d] # <<>> =>
                  {row.bin_index : row \in StoredRows(d)}
                      = 0..(Len(saved[d][Len(saved[d])]) - 1)

\* Date 0 was saved with two bins and then with one bin, one call after the
\* other, and one row of date 0 is left, while a call that is saving date 1
\* has inserted its row and not committed it.
C10_Witness ==
    /\ Len(saved[0]) = 2
    /\ Len(saved[0][1]) = 2
    /\ Len(saved[0][2]) = 1
    /\ 0 \notin raced
    /\ Quiet(0)
    /\ Cardinality(StoredRows(0)) = 1
    /\ \E r \in DOMAIN conn :
          /\ conn[r].pc = "insert"
          /\ conn[r].date_str = 1
          /\ conn[r].pending # {}

\* ------------------------------------------------------------------------
\* The readings that each bin counts (SpecSamples)
\* ------------------------------------------------------------------------

\* main is run with bins of 12 hours, which divide the day, or of 1000
\* minutes, whose second bin ends 560 minutes after the day
CountBinMinutes == {720, 1000}

\* The times of the readings: half a minute before the day, its start, the
\* last half minute of the first 12 hours, noon, the end of the day, and the
\* end of the second bin of 1000 minutes
CountTimes ==
    {At(0, 0, 0) - 1, At(0, 0, 0), At(0, 12, 0) - 1, At(0, 12, 0),
     At(1, 0, 0), Minutes(2000)}

\* The heart rates of the readings: none, which is zone 0, and one of zone 4
CountRates == {0, 125}

\* main is about to run for a day of up to MaxReadings readings, in any
\* order: calculate_dominant_zone_for_bin takes any list, and the lists in
\* the order of the query (line 118) are among these.
SamplesInit ==
    /\ pc = "main"
    /\ date_str = 0
    /\ bin_minutes \in CountBinMinutes
    /\ max_hr = 173
    /\ sleep_periods = <<>>
    /\ hr_data \in SeqsUpTo(CountTimes \X CountRates, MaxReadings)
    /\ current_time = 0
    /\ bins = <<>>
    /\ waffle_data = <<>>
    /\ summary = None
    /\ ZoneIdle
    /\ DbIdle
    /\ ViewIdle

SpecSamples == SamplesInit /\ [][MainNext]_vars

\* The readings of hr_data whose time lies in [from, to), by their place in
\* hr_data
ReadingsIn(from, to) ==
    {s \in 1..Len(hr_data) : from <= hr_data[s][1] /\ hr_data[s][1] < to}

\* The sum of hr_readings_count over the first n entries of waffle_data
RECURSIVE CountedUpTo(_)
CountedUpTo(n) ==
    IF n = 0 THEN 0
    ELSE waffle_data[n].hr_readings_count + CountedUpTo(n - 1)

\* C15: for every list of readings, in any order, and bin_minutes > 0, a
\* reading whose time lies in [bins[0].start, bins[last].end) is counted in
\* hr_readings_count of exactly one bin, the one with start <= time < end
\* (on a boundary, the later bin); a reading outside that range is counted
\* in no bin; and the sum of hr_readings_count over the bins is the number
\* of readings in the range, whatever their heart rate.
C15_EveryReadingCountedOnce ==
    (bin_minutes > 0 /\ pc = "save_to_database") =>
        LET n == Len(waffle_data)
            first == waffle_data[1].bin_start
            last == waffle_data[n].bin_end
            holding(s) == {k \in 1..n :
                              /\ waffle_data[k].bin_start <= hr_data[s][1]
                              /\ hr_data[s][1] < waffle_data[k].bin_end}
        IN  /\ \A k \in 1..n :
                  waffle_data[k].hr_readings_count =
                      Cardinality(ReadingsIn(waffle_data[k].bin_start,
                                             waffle_data[k].bin_end))
            /\ \A s \in 1..Len(hr_data) :
                  Cardinality(holding(s)) =
                      IF s \in ReadingsIn(first, last) THEN 1 ELSE 0
            /\ \A s \in 1..Len(hr_data) : \A k \in 2..n :
                  hr_data[s][1] = waffle_data[k].bin_start =>
                      holding(s) = {k}
            /\ CountedUpTo(n) = Cardinality(ReadingsIn(first, last))

\* Out of order, a reading at noon, one half a minute before the day and an
\* invalid one at midnight: with bins of 12 hours the first bin counts the
\* one at midnight, the second the one at noon, and no bin the early one.
C15_Witness ==
    /\ pc = "save_to_database"
    /\ bin_minutes = 720
    /\ hr_data = << <<At(0, 12, 0), 125>>, <<At(0, 0, 0) - 1, 125>>,
                    <<At(0, 0, 0), 0>> >>
    /\ waffle_data[1].hr_readings_count = 1
    /\ waffle_data[2].hr_readings_count = 1

\* ------------------------------------------------------------------------
\* The summary and the viewer (SpecView)
\* ------------------------------------------------------------------------

\* The bins of the days shown: of 4 hours or of 8 hours
ViewBinMinutes == {240, 480}

\* The sleep stages of the days shown: none, one from midnight to 07:00, or
\* one from 13:00 to 15:00
ViewSleep ==
    { <<>>,
      << <<At(0, 0, 0), At(0, 7, 0)>> >>,
      << <<At(0, 13, 0), At(0, 15, 0)>> >> }

\* The times of the readings of the days shown
ViewTimes ==
    {At(0, 2, 0), At(0, 6, 0), At(0, 10, 0), At(0, 14, 0), At(0, 22, 0)}

\* Their heart rates: of zone 0, of zone 2 and of zone 4 at max_hr 173
ViewRates == {0, 95, 125}

\* The rows of the other date, which the viewer does not show: those of a
\* day of two bins
OtherDay == process_bins(create_time_bins(1, 720), <<>>, <<>>, 173)

\* Either main is about to run on a day's data, or main has run on it to its
\* end (line 375) and save_to_database has stored its waffle_data, and the
\* viewer's main is about to run.
ViewInit ==
    /\ date_str = view_date
    /\ bin_minutes \in ViewBinMinutes
    /\ max_hr = 173
    /\ sleep_periods \in ViewSleep
    /\ hr_data \in {data \in SeqsUpTo(ViewTimes \X ViewRates, MaxReadings) :
                       OrderedByTime(data)}
    /\ view_out = None
    /\ timeline_rows = <<>>
    /\ row_i = 0
    /\ current_state = None
    /\ state_start = None
    /\ printed = <<>>
    /\ conn = [r \in 1..NumSaves |-> NoCall]
    /\ raced = {}
    /\ ZoneIdle
    /\ \/ /\ pc = "main"
          /\ view_pc = "idle"
          /\ current_time = 0
          /\ bins = <<>>
          /\ waffle_data = <<>>
          /\ summary = None
          /\ table = {}
          /\ saved = [d \in Dates |-> <<>>]
       \/ /\ pc = "done"
          /\ view_pc = "main"
          /\ bins = create_time_bins(date_str, bin_minutes)
          /\ current_time = bins[Len(bins)][2]
          /\ waffle_data = process_bins(bins, hr_data, sleep_periods, max_hr)
          /\ summary = Some(print_waffle_summary(waffle_data))
          /\ table = {insert_values(date_str, waffle_data[k]) :
                         k \in 1..Len(waffle_data)}
                     \cup {insert_values(1, OtherDay[k]) :
                              k \in 1..Len(OtherDay)}
          /\ saved = [d \in Dates |->
                         IF d = date_str THEN <<waffle_data>>
                         ELSE <<OtherDay>>]

ViewSpecNext ==
    \/ MainNext
    \/ ViewNext

SpecView == ViewInit /\ [][ViewSpecNext]_vars

\* The stored row of the date shown whose bin_index is i
StoredBin(i) ==
    CHOOSE row \in table : row.date = view_date /\ row.bin_index = i

\* The number of stored rows of the date shown
StoredCount == Cardinality({row \in table : row.date = view_date})

\* The label of a bin: SLEEP if is_sleep, else NO_DATA if dominant_zone is
\* null, else ZONE_<n>
LabelOf(bin) ==
    IF bin.is_sleep THEN "SLEEP"
    ELSE IF bin.dominant_zone = None THEN "NO_DATA"
    ELSE "ZONE_" \o ToString(bin.dominant_zone[1])

\* C11: the timeline that view_detailed_timeline prints is the run-length
\* encoding of the stored bins in the order of bin_index under their labels:
\* the intervals are in bin order, adjacent intervals have different labels,
\* the first starts at the first bin's start, each ends at the start of the
\* next, the last ends at the last bin's end, every bin lies in exactly one
\* interval, which has the bin's label, and the times printed are those
\* boundaries as hour and minute.
C11_TimelineIsRunLengthEncoding ==
    view_pc = "done" =>
        LET n == StoredCount
            m == Len(printed)
            holding(k) == {j \in 1..m :
                              /\ printed[j].from <= StoredBin(k - 1).bin_start
                              /\ StoredBin(k - 1).bin_end <= printed[j].to}
        IN  /\ (n = 0) <=> (m = 0)
            /\ m > 0 =>
                  /\ printed[1].from = StoredBin(0).bin_start
                  /\ printed[m].to = StoredBin(n - 1).bin_end
            /\ \A j \in 1..m :
                  /\ printed[j].from < printed[j].to
                  /\ printed[j].text = << strftime(printed[j].from),
                                          strftime(printed[j].to),
                                          printed[j].state >>
            /\ \A j \in 1..(m - 1) :
                  /\ printed[j].to = printed[j + 1].from
                  /\ printed[j].state # printed[j + 1].state
            /\ \A k \in 1..n :
                  /\ Cardinality(holding(k)) = 1
                  /\ \A j \in holding(k) :
                        printed[j].state = LabelOf(StoredBin(k - 1))

\* Six stored bins of 4 hours, two of sleep, one of zone 4 and three
\* without data, have been printed as three intervals.
C11_Witness ==
    /\ view_pc = "done"
    /\ StoredCount = 6
    /\ Len(printed) = 3
    /\ printed[1].text = << <<0, 0>>, <<8, 0>>, "SLEEP" >>
    /\ printed[2].text = << <<8, 0>>, <<12, 0>>, "ZONE_4" >>
    /\ printed[3].text = << <<12, 0>>, <<0, 0>>, "NO_DATA" >>

\* The distribution lists every zone once, with the number of the bins of
\* the set that are awake and have it as dominant zone, and lists no zone
\* that no such bin has.
DistributionOf(lines, all_bins) ==
    LET under(z) == {b \in all_bins :
                        ~b.is_sleep /\ b.dominant_zone = Some(z)}
        listed == {lines[i][1] : i \in 1..Len(lines)}
    IN  /\ \A i \in 1..Len(lines) : \A j \in 1..Len(lines) :
              lines[i][1] = lines[j][1] => i = j
        /\ \A z \in 0..6 : (z \in listed) <=> (under(z) # {})
        /\ \A i \in 1..Len(lines) :
              lines[i][2] = Cardinality(under(lines[i][1]))
        /\ SumSeq([i \in 1..Len(lines) |-> lines[i][2]]) =
              Cardinality({b \in all_bins :
                              ~b.is_sleep /\ b.dominant_zone # None})

\* C12: the zone distribution, of print_waffle_summary and of
\* view_waffle_data, counts a bin under zone z if and only if the bin has
\* is_sleep false and dominant_zone z; a sleep bin is counted under no zone,
\* also when it has readings; the total is the number of awake bins with a
\* dominant zone.
C12_ZoneDistributionAwakeOnly ==
    /\ (pc = "save_to_database" /\ summary # None) =>
          DistributionOf(summary[1].zone_distribution,
                         {waffle_data[k] : k \in 1..Len(waffle_data)})
    /\ (view_out # None /\ view_out[1].found) =>
          DistributionOf(view_out[1].zone_distribution,
                         {row \in table : row.date = view_date})

\* view_waffle_data has shown a day with a sleep bin that holds a reading
\* of zone 4 and an awake bin of zone 2: zone 2 alone is listed.
C12_Witness ==
    /\ view_out # None
    /\ view_out[1].found
    /\ view_out[1].zone_distribution = << <<2, 1>> >>
    /\ \E row \in table :
          /\ row.date = view_date
          /\ row.is_sleep
          /\ row.hr_readings_count > 0
          /\ row.dominant_zone = Some(4)

\* C16: the figure "Awake bins with HR data" of view_waffle_data is the
\* number of stored bins with is_sleep false and hr_readings_count > 0, and
\* is never negative.
C16_AwakeWithDataFigure ==
    (view_out # None /\ view_out[1].found) =>
        /\ view_out[1].awake_with_data =
              Cardinality({row \in table :
                              /\ row.date = view_date
                              /\ ~row.is_sleep
                              /\ row.hr_readings_count > 0})
        /\ view_out[1].awake_with_data >= 0

====
